---- MODULE Spec2Model ----
(***************************************************************************)
(* Model of the transfer pipeline of the GDrive uploader bot:              *)
(*   - the job queue and its single background worker (app/handlers.py),   *)
(*   - the per-job flow _process_and_upload (app/handlers.py),             *)
(*   - the transfer loop of download_http (app/downloader.py).             *)
(*                                                                         *)
(* Spec      : queue, worker and per-job flow, with cancellation of the    *)
(*             worker task as an event of the host event loop.             *)
(* LiveSpec  : the same without cancellation, with weak fairness on the    *)
(*             worker's steps (every await of the worker completes).       *)
(* DlSpec    : one run of the transfer loop of download_http against a     *)
(*             server whose answers are chosen nondeterministically.       *)
(* ResSpec   : one run of the landing-page resolution loop of              *)
(*             download_http.                                              *)
(***************************************************************************)
EXTENDS Integers, Sequences, FiniteSets, TLC

\* ------------------------------------------------------------------ bounds
\* Number of enqueue requests the model lets arrive.
MaxJobs == 3
\* Number of times the event loop cancels a worker task.
MaxCancels == 1

JobIds == 1..MaxJobs

VARIABLES
    \* ---- app/handlers.py, module state
    job_queue,      \* _job_queue: FIFO of job ids
    worker_task,    \* _worker_task: index into workers, 0 = None
    worker_busy,    \* _worker_busy
    workers,        \* every task created by app.create_task(_queue_worker(app)):
                    \* [pc, job, err, creds, dl], the last three about its job
    \* ---- _enqueue_job in flight (updates are handled one at a time)
    handler,        \* [pc, job]
    nextJob,        \* id the next request gets
    position,       \* position computed by _enqueue_job, 0 = not computed
    \* ---- per job
    ticket,         \* text shown by job.ticket_msg, <<kind, detail>>
    outcome,        \* how the worker left the job
    cancels         \* cancellations delivered so far

VARIABLES
    \* ---- app/downloader.py, download_http, lines 181-282
    dpc,            \* where the transfer loop is
    done,           \* bytes written so far
    total,          \* bytesTotal, 0 = unknown
    retries_left,
    part,           \* content of the ".part" file
    partExists,
    dest,           \* content of the destination file
    destExists,
    rangeFrom,      \* offset of the Range header of the request in flight
    resp,           \* the last response received: [status, pos]
    attempts,       \* GET requests issued by the transfer loop
    rangeIgnored    \* some request with a Range header was answered 200

VARIABLES
    \* ---- app/downloader.py, download_http, lines 136-179
    rpc,            \* where the resolution loop is
    iter,           \* iteration of "for _ in range(max_html_hops + 1)"
    hops,           \* reassignments of cur_url (line 171)
    cur_url,
    seenFile,       \* the loop was left by the break of line 179
    name_hint,      \* URL whose HEAD gave the name hint, 0 = None
    mime_hint,      \* URL whose HEAD gave the MIME hint, 0 = None
    total_declared  \* URL whose HEAD gave the Content-Length, 0 = none

VARIABLES
    \* ---- app/utils.py Throttle, app/handlers.py updater (lines 298-304)
    now,            \* time.monotonic(), in ticks
    t0,             \* value of now when the transfer began
    thr_interval,   \* Throttle.interval, in ticks
    thr_last,       \* Throttle._last
    emitted,        \* safe_edit tasks created by updater
    lastEmit        \* value of now when the last one was created

VARIABLES
    \* ---- app/handlers.py lines 334-371 with app/drive.py lines 148-198
    upc,            \* where _process_and_upload is in its upload part
    uploaded,       \* chunks sent by req.next_chunk()
    reqPending,     \* enqueue requests received and not yet handled
    reqAcked        \* enqueue requests handled (ticket sent)

VARIABLES
    \* ---- app/handlers.py safe_edit, lines 59-97
    spc,            \* where safe_edit is
    attempt,        \* loop variable of "for attempt in range(max_tries)"
    edits,          \* msg.edit_text calls made
    sends,          \* msg.chat.send_message calls made
    last_err,       \* "" = None
    slept           \* time spent in asyncio.sleep, in half seconds

VARIABLES
    \* ---- app/handlers.py updater, lines 300-304
    progress        \* per job: a safe_edit task created by updater has not
                    \* ended

qvars == <<job_queue, worker_task, worker_busy, workers, handler, nextJob,
           position, ticket, outcome, cancels>>

dvars == <<dpc, done, total, retries_left, part, partExists, dest, destExists,
           rangeFrom, resp, attempts, rangeIgnored>>

rvars == <<rpc, iter, hops, cur_url, seenFile, name_hint, mime_hint,
           total_declared>>

hvars == <<now, t0, thr_interval, thr_last, emitted, lastEmit>>

uvars == <<upc, uploaded, reqPending, reqAcked>>

evars == <<spc, attempt, edits, sends, last_err, slept>>

pvars == <<progress>>

vars == <<qvars, dvars, rvars, hvars, uvars, evars, pvars>>

\* What the actions of one part leave alone: the variables of the others.
notQ == <<dvars, rvars, hvars, uvars, evars, pvars>>
notD == <<qvars, rvars, hvars, uvars, evars, pvars>>
notR == <<qvars, dvars, hvars, uvars, evars, pvars>>
notH == <<qvars, dvars, rvars, uvars, evars, pvars>>
notU == <<qvars, dvars, rvars, hvars, evars, pvars>>
notE == <<qvars, dvars, rvars, hvars, uvars, pvars>>
notQP == <<dvars, rvars, hvars, uvars, evars>>

\* ------------------------------------------------------------ ticket texts
NoTicket     == <<"none", "">>
Preparing    == <<"Preparing", "">>
QueuedCard   == <<"Queued", "">>
StartingCard == <<"Starting", "">>
ProgressCard == <<"Progress", "">>
FailedCard(e) == <<"Failed", e>>

\* ------------------------------------------------------- the queue's state
\* asyncio.Queue.get on a non-empty queue: the oldest entry and the rest.
QueueGetLifo(q) == <<q[Len(q)], SubSeq(q, 1, Len(q) - 1)>>
QueueGet(q) == <<Head(q), Tail(q)>>

\* position = _job_queue.qsize() + (1 if _worker_busy else 0) + 1
PositionNoBusy == Len(job_queue) + 1
Position == Len(job_queue) + (IF worker_busy THEN 1 ELSE 0) + 1

\* _start_worker: "if _worker_task is None or _worker_task.done()"
NeedWorkerAlways == TRUE
NeedWorkerInverted == worker_task = 0 \/ workers[worker_task].pc # "done"
NeedWorkerOnlyNone == worker_task = 0
NeedWorker == worker_task = 0 \/ workers[worker_task].pc = "done"

\* "while True" of _queue_worker
LoopOnce == FALSE
LoopForever == TRUE

IdleWorker == [pc |-> "get", job |-> 0, err |-> "", creds |-> "unknown",
               dl |-> "none"]
DoneWorker == [pc |-> "done", job |-> 0, err |-> "", creds |-> "unknown",
               dl |-> "none"]

\* _start_worker(app), applied to the workers as they are after the put
start_worker ==
    IF NeedWorker
    THEN /\ workers' = Append(workers, IdleWorker)
         /\ worker_task' = Len(workers) + 1
    ELSE UNCHANGED <<workers, worker_task>>

QInit ==
    /\ job_queue = <<>>
    /\ worker_task = 0
    /\ worker_busy = FALSE
    /\ workers = <<>>
    /\ handler = [pc |-> "idle", job |-> 0]
    /\ nextJob = 1
    /\ position = [j \in JobIds |-> 0]
    /\ ticket = [j \in JobIds |-> NoTicket]
    /\ outcome = [j \in JobIds |-> "none"]
    /\ cancels = 0

\* ------------------------------------------------------------ _enqueue_job
\* Line 259: the position is computed on entry, then the handler awaits the
\* reply that creates the ticket.
EnqueueBegin ==
    /\ handler.pc = "idle"
    /\ nextJob <= MaxJobs
    /\ position' = [position EXCEPT ![nextJob] = Position]
    /\ handler' = [pc |-> "reply", job |-> nextJob]
    /\ nextJob' = nextJob + 1
    /\ UNCHANGED <<job_queue, worker_task, worker_busy, workers, ticket,
                   outcome, cancels>>
    /\ UNCHANGED notQ

\* Lines 260-279: the reply returned the ticket; put the job, start the worker.
EnqueuePut ==
    /\ handler.pc = "reply"
    /\ LET j == handler.job IN
        /\ ticket' = [ticket EXCEPT ![j] =
                        IF position[j] > 1 THEN QueuedCard ELSE Preparing]
        /\ job_queue' = Append(job_queue, j)
    /\ start_worker
    /\ handler' = [pc |-> "idle", job |-> 0]
    /\ UNCHANGED <<worker_busy, nextJob, position, outcome, cancels>>
    /\ UNCHANGED notQ

\* Lines 261-267: reply_text raises; the handler ends before the put.
EnqueueReplyFails ==
    /\ handler.pc = "reply"
    /\ handler' = [pc |-> "idle", job |-> 0]
    /\ UNCHANGED <<job_queue, worker_task, worker_busy, workers, nextJob,
                   position, ticket, outcome, cancels>>
    /\ UNCHANGED notQ

\* ----------------------------------------------------------- _queue_worker
\* Lines 221-222 when the queue holds a job: get() returns without
\* suspending, the flag is set, and the worker reaches the await of line 225.
TakeJob(w, q) ==
    [IdleWorker EXCEPT !.pc = "starting", !.job = QueueGet(q)[1]]

\* Lines 245-247 followed by the loop of line 220: the flag is cleared, and
\* the worker either takes the next job at once or waits on the empty queue.
\* `out` is how the job ended.
FinishJob(w, out) ==
    LET j == workers[w].job IN
    /\ outcome' = [outcome EXCEPT ![j] = out]
    /\ IF ~LoopForever
       THEN /\ workers' = [workers EXCEPT ![w] = DoneWorker]
            /\ worker_busy' = FALSE
            /\ UNCHANGED job_queue
       ELSE IF job_queue # <<>>
       THEN /\ workers' = [workers EXCEPT ![w] = TakeJob(w, job_queue)]
            /\ job_queue' = QueueGet(job_queue)[2]
            /\ worker_busy' = TRUE
       ELSE /\ workers' = [workers EXCEPT ![w] = IdleWorker]
            /\ worker_busy' = FALSE
            /\ UNCHANGED job_queue

\* Line 221: the worker was suspended in get() (or had not run yet) and a job
\* is there.
WorkerGet(w) ==
    /\ workers[w].pc = "get"
    /\ job_queue # <<>>
    /\ workers' = [workers EXCEPT ![w] = TakeJob(w, job_queue)]
    /\ job_queue' = QueueGet(job_queue)[2]
    /\ worker_busy' = TRUE
    /\ UNCHANGED <<worker_task, handler, nextJob, position, ticket, outcome, cancels>>
    /\ UNCHANGED notQ

\* safe_edit as seen by its caller: the edit was applied, a new message was
\* sent instead, or the last error was raised.
SafeEditOutcomes == {"edited", "fallback", "raised"}

\* Lines 224-228 and 291-297/313: the await of safe_edit("Starting") ends
\* (an exception of it is swallowed), then load_creds runs.
WorkerStarted(w) ==
    /\ workers[w].pc = "starting"
    /\ LET j == workers[w].job IN
       \E o \in SafeEditOutcomes, c \in {"yes", "no", "error"} :
        /\ ticket' = [ticket EXCEPT ![j] =
                        IF o = "edited" THEN StartingCard ELSE @]
        /\ workers' = [workers EXCEPT ![w] =
                        CASE c = "yes"   -> [@ EXCEPT !.pc = "download",
                                                      !.creds = c]
                          [] c = "no"    -> [@ EXCEPT !.pc = "nologin",
                                                      !.creds = c]
                          [] c = "error" -> [@ EXCEPT !.pc = "failedit",
                                                      !.creds = c,
                                                      !.err = "CredsError"]]
    /\ UNCHANGED <<job_queue, worker_task, worker_busy, handler, nextJob,
                   position, outcome, cancels>>
    /\ UNCHANGED notQ

\* Lines 293-295: the reply "Please /login first" was sent; the function
\* returns and the worker's finally block runs.
WorkerNoLoginReplied(w) ==
    /\ workers[w].pc = "nologin"
    /\ FinishJob(w, "returned")
    /\ UNCHANGED <<worker_task, handler, nextJob, position, ticket, cancels>>
    /\ UNCHANGED notQ

\* Line 294 raises: the worker's except block is entered (line 238).
WorkerNoLoginReplyFails(w) ==
    /\ workers[w].pc = "nologin"
    /\ workers' = [workers EXCEPT ![w] =
                    [@ EXCEPT !.pc = "failedit", !.err = "ReplyError"]]
    /\ UNCHANGED <<job_queue, worker_task, worker_busy, handler, nextJob,
                   position, ticket, outcome, cancels>>
    /\ UNCHANGED notQ

\* Lines 317-326: safe_edit(card_done(...), parse_mode=..., ...) passes the
\* card as `msg` and no `text`: the call raises TypeError before any edit.
DownloadCompleteEdit == "TypeError"
\* Lines 329-331: safe_edit(f"Download failed: ...", parse_mode=...) has the
\* same shape: the except block itself raises TypeError.
DownloadFailedEdit == "TypeError"

\* What leaves _process_and_upload once the download call has ended:
\* "upload" when the flow goes on to the upload part, else the exception.
AfterDownload(ok) ==
    IF ok /\ DownloadCompleteEdit = "ok" THEN "upload"
    ELSE IF DownloadFailedEdit = "ok" THEN "return"
    ELSE DownloadFailedEdit

\* Lines 306-332: the download call returns; the card edit of line 317
\* raises, the except block of line 327 raises again, and the exception
\* reaches the except block of the worker (line 238).
DownloadReturns(w) ==
    /\ workers[w].pc = "download"
    /\ workers' = [workers EXCEPT ![w] =
                    [@ EXCEPT !.pc = "failedit", !.dl = "ok",
                              !.err = AfterDownload(TRUE)]]
    /\ UNCHANGED <<job_queue, worker_task, worker_busy, handler, nextJob,
                   position, ticket, outcome, cancels>>
    /\ UNCHANGED notQ

\* What the download call can raise: the RuntimeError of the resolver
\* (downloader.py line 174, "This URL opens a web page, not a direct file.
\* ... copy the final download link"), or a transport error (lines 209, 272).
DownloadErrors == {"NotAFile", "TransportError"}

\* Lines 306-332: the download call raises e; line 329 raises TypeError,
\* which replaces e as the exception that leaves the function.
DownloadRaises(w) ==
    /\ workers[w].pc = "download"
    /\ \E e \in DownloadErrors :
        workers' = [workers EXCEPT ![w] =
                    [@ EXCEPT !.pc = "failedit", !.dl = e,
                              !.err = AfterDownload(FALSE)]]
    /\ UNCHANGED <<job_queue, worker_task, worker_busy, handler, nextJob,
                   position, ticket, outcome, cancels>>
    /\ UNCHANGED notQ

\* Lines 238-247: job.ticket_msg.edit_text("Failed: ...") ends, accepted or
\* raising (then swallowed); the finally block runs.
WorkerFailEdit(w) ==
    /\ workers[w].pc = "failedit"
    /\ LET j == workers[w].job IN
       \E ok \in BOOLEAN :
        ticket' = [ticket EXCEPT ![j] =
                    IF ok THEN FailedCard(workers[w].err) ELSE @]
    /\ FinishJob(w, "failed")
    /\ UNCHANGED <<worker_task, handler, nextJob, position, cancels>>
    /\ UNCHANGED notQ

\* CancelledError delivered to the worker at the await it is suspended in.
\* It is no Exception: line 238 does not catch it. Inside the try the finally
\* block runs (lines 245-247); in get() nothing does. The task ends.
CancelWorkerKeepsFlag(w) ==
    /\ workers[w].pc # "done"
    /\ cancels < MaxCancels
    /\ cancels' = cancels + 1
    /\ workers' = [workers EXCEPT ![w] = DoneWorker]
    /\ IF workers[w].pc = "get"
       THEN UNCHANGED outcome
       ELSE outcome' = [outcome EXCEPT ![workers[w].job] = "cancelled"]
    /\ UNCHANGED <<job_queue, worker_task, worker_busy, handler, nextJob,
                   position, ticket>>
    /\ UNCHANGED notQ
CancelWorker(w) ==
    /\ workers[w].pc # "done"
    /\ cancels < MaxCancels
    /\ cancels' = cancels + 1
    /\ workers' = [workers EXCEPT ![w] = DoneWorker]
    /\ IF workers[w].pc = "get"
       THEN UNCHANGED <<worker_busy, outcome>>
       ELSE /\ worker_busy' = FALSE
            /\ outcome' = [outcome EXCEPT ![workers[w].job] = "cancelled"]
    /\ UNCHANGED <<job_queue, worker_task, handler, nextJob, position, ticket>>
    /\ UNCHANGED notQ

WorkerIds == 1..Len(workers)

WorkerStep ==
    \/ \E w \in WorkerIds : WorkerGet(w)
    \/ \E w \in WorkerIds : WorkerStarted(w)
    \/ \E w \in WorkerIds : WorkerNoLoginReplied(w)
    \/ \E w \in WorkerIds : WorkerNoLoginReplyFails(w)
    \/ \E w \in WorkerIds : DownloadReturns(w)
    \/ \E w \in WorkerIds : DownloadRaises(w)
    \/ \E w \in WorkerIds : WorkerFailEdit(w)

\* ---------------------------------------------------------- download_http
\* The resource served at the resolved URL: FileLen chunks, chunk i holding
\* the value i.  One chunk stands for one read of DL_CHUNK bytes.
FileLen == 3
Resource == [i \in 1..FileLen |-> i]

\* max_retries = 5
max_retries == 5

\* total_declared as the resolution loop leaves it: 0 when no probe gave a
\* Content-Length, else the length the last answering probe declared, which
\* need not be the length of the body the GET delivers.
DeclaredTotals == 0..(FileLen + 1)

NoResp == [status |-> 0, pos |-> 0]

\* No download in progress (the queue specifications keep it so).
DIdle ==
    /\ dpc = "idle"
    /\ done = 0
    /\ total = 0
    /\ retries_left = max_retries
    /\ part = <<>>
    /\ partExists = FALSE
    /\ dest = <<>>
    /\ destExists = FALSE
    /\ rangeFrom = 0
    /\ resp = NoResp
    /\ attempts = 0
    /\ rangeIgnored = FALSE

\* Lines 181-194: the state on entry to the transfer loop.  A ".part" file
\* of an earlier attempt may exist; its size is the starting offset.
DStart ==
    /\ dpc = "request"
    /\ partExists \in BOOLEAN
    /\ part \in IF partExists
                THEN {SubSeq(Resource, 1, n) : n \in 0..FileLen}
                ELSE {<<>>}
    /\ done = IF partExists THEN Len(part) ELSE 0
    /\ total \in DeclaredTotals
    /\ retries_left = max_retries
    /\ dest = <<>>
    /\ destExists = FALSE
    /\ rangeFrom = 0
    /\ resp = NoResp
    /\ attempts = 0
    /\ rangeIgnored = FALSE

\* What an earlier job left in a part file of the same name when its source
\* was another one: lines 181-184 derive the name from the name hint or
\* from the last segment of the URL path, not from the whole URL.
OtherResource == [i \in 1..FileLen |-> FileLen + i]

\* Lines 181-194 when the part file found on disk is of that kind.
DStartStale ==
    /\ dpc = "request"
    /\ partExists = TRUE
    /\ part \in {SubSeq(OtherResource, 1, n) : n \in 1..FileLen}
    /\ done = Len(part)
    /\ total \in DeclaredTotals
    /\ retries_left = max_retries
    /\ dest = <<>>
    /\ destExists = FALSE
    /\ rangeFrom = 0
    /\ resp = NoResp
    /\ attempts = 0
    /\ rangeIgnored = FALSE

\* Lines 198-208: build the headers (Range only when done > 0), send the GET.
DlSend ==
    /\ dpc = "request"
    /\ rangeFrom' = done
    /\ attempts' = attempts + 1
    /\ resp' = NoResp
    /\ dpc' = "wait"
    /\ UNCHANGED <<done, total, retries_left, part, partExists, dest,
                   destExists, rangeIgnored>>
    /\ UNCHANGED notD

\* Lines 267-272: a transient fault reached the except clause.
RetryForever ==
    /\ dpc' = "sleep"
    /\ UNCHANGED retries_left
RetryOneShort ==
    IF retries_left > 1
    THEN /\ retries_left' = retries_left - 1
         /\ dpc' = "sleep"
    ELSE /\ dpc' = "raised"
         /\ UNCHANGED retries_left
Retry ==
    IF retries_left > 0
    THEN /\ retries_left' = retries_left - 1
         /\ dpc' = "sleep"
    ELSE /\ dpc' = "raised"
         /\ UNCHANGED retries_left

\* Line 203 raises ClientConnectorError / TimeoutError / ConnectionResetError.
DlConnectFault ==
    /\ dpc = "wait"
    /\ Retry
    /\ UNCHANGED <<done, total, part, partExists, dest, destExists, rangeFrom,
                   resp, attempts, rangeIgnored>>
    /\ UNCHANGED notD

\* Line 209: raise_for_status raises ClientResponseError, which the except
\* clause of line 267 does not name.
DlHttpErrorRetried ==
    /\ dpc = "wait"
    /\ resp' = [status |-> 500, pos |-> 0]
    /\ Retry
    /\ UNCHANGED <<done, total, part, partExists, dest, destExists, rangeFrom,
                   attempts, rangeIgnored>>
    /\ UNCHANGED notD
DlHttpError ==
    /\ dpc = "wait"
    /\ resp' = [status |-> 500, pos |-> 0]
    /\ dpc' = "raised"
    /\ UNCHANGED <<done, total, retries_left, part, partExists, dest,
                   destExists, rangeFrom, attempts, rangeIgnored>>
    /\ UNCHANGED notD

\* Lines 218-225: with no total from a Content-Range header, the
\* Content-Length cl becomes the total when none is known and done is 0.
TotalAfterHeadersTrusting(cl) == IF total = 0 /\ cl > 0 THEN cl ELSE total
TotalAfterHeaders(cl) ==
    IF total = 0 /\ done = 0 /\ cl > 0 THEN cl ELSE total

\* Lines 209-239, the server honours the Range header: 206 for the bytes
\* from rangeFrom on, with "Content-Range: bytes from-last/FileLen" (hasCR)
\* or without it and with the Content-Length of the remainder; the part
\* file is opened for appending.
DlResp206(hasCR) ==
    /\ dpc = "wait"
    /\ rangeFrom > 0
    /\ rangeFrom < FileLen
    /\ total' = IF hasCR THEN FileLen
                ELSE TotalAfterHeaders(FileLen - rangeFrom)
    /\ partExists' = TRUE
    /\ resp' = [status |-> 206, pos |-> rangeFrom + 1]
    /\ dpc' = "stream"
    /\ UNCHANGED <<done, retries_left, part, dest, destExists, rangeFrom,
                   attempts, rangeIgnored>>
    /\ UNCHANGED notD

\* Lines 209-239, the server answers 200 with the whole body; cl is its
\* Content-Length header, 0 when it sends none.
DlResp200NoTruncate(cl) ==
    /\ dpc = "wait"
    /\ total' = IF total = 0 /\ done = 0 /\ cl > 0 THEN cl ELSE total
    /\ done' = 0
    /\ partExists' = TRUE
    /\ resp' = [status |-> 200, pos |-> 1]
    /\ dpc' = "stream"
    /\ rangeIgnored' = (rangeIgnored \/ done > 0)
    /\ UNCHANGED <<part, retries_left, dest, destExists, rangeFrom, attempts>>
    /\ UNCHANGED notD
DlResp200(cl) ==
    /\ dpc = "wait"
    /\ total' = TotalAfterHeaders(cl)
    /\ IF done > 0
       THEN /\ part' = <<>>
            /\ done' = 0
       ELSE UNCHANGED <<part, done>>
    /\ partExists' = TRUE
    /\ resp' = [status |-> 200, pos |-> 1]
    /\ dpc' = "stream"
    /\ rangeIgnored' = (rangeIgnored \/ done > 0)
    /\ UNCHANGED <<retries_left, dest, destExists, rangeFrom, attempts>>
    /\ UNCHANGED notD

\* Lines 240-244: one chunk is read and appended.
DlChunkNoCount ==
    /\ dpc = "stream"
    /\ resp.pos <= FileLen
    /\ part' = Append(part, Resource[resp.pos])
    /\ resp' = [resp EXCEPT !.pos = @ + 1]
    /\ UNCHANGED <<dpc, done, total, retries_left, partExists, dest,
                   destExists, rangeFrom, attempts, rangeIgnored>>
    /\ UNCHANGED notD
DlChunk ==
    /\ dpc = "stream"
    /\ resp.pos <= FileLen
    /\ part' = Append(part, Resource[resp.pos])
    /\ done' = done + 1
    /\ resp' = [resp EXCEPT !.pos = @ + 1]
    /\ UNCHANGED <<dpc, total, retries_left, partExists, dest, destExists,
                   rangeFrom, attempts, rangeIgnored>>
    /\ UNCHANGED notD

\* Lines 274-279: what the loop does once a stream has ended without an
\* exception: "if total and done >= total: break", then "break".
AfterStream == IF total # 0 /\ done >= total THEN "rename" ELSE "rename"

\* Lines 240, 274-282: the stream ends without an exception, at the end of
\* the body or before it (a body delimited by the close of the connection).
DlStreamEnds ==
    /\ dpc = "stream"
    /\ IF AfterStream = "rename"
       THEN /\ dest' = part
            /\ destExists' = TRUE
            /\ part' = <<>>
            /\ partExists' = FALSE
            /\ dpc' = "returned"
       ELSE /\ dpc' = "request"
            /\ UNCHANGED <<dest, destExists, part, partExists>>
    /\ UNCHANGED <<done, total, retries_left, rangeFrom, resp, attempts, rangeIgnored>>
    /\ UNCHANGED notD

\* Line 240 raises ClientPayloadError / TimeoutError / ConnectionResetError.
DlStreamFaultResets ==
    /\ dpc = "stream"
    /\ resp' = NoResp
    /\ Retry
    /\ done' = 0
    /\ part' = <<>>
    /\ UNCHANGED <<total, partExists, dest, destExists, rangeFrom, attempts,
                   rangeIgnored>>
    /\ UNCHANGED notD
DlStreamFault ==
    /\ dpc = "stream"
    /\ resp' = NoResp
    /\ Retry
    /\ UNCHANGED <<done, total, part, partExists, dest, destExists, rangeFrom,
                   attempts, rangeIgnored>>
    /\ UNCHANGED notD

\* Lines 270-271: the sleep of one second is over.
DlSleepDone ==
    /\ dpc = "sleep"
    /\ dpc' = "request"
    /\ UNCHANGED <<done, total, retries_left, part, partExists, dest,
                   destExists, rangeFrom, resp, attempts, rangeIgnored>>
    /\ UNCHANGED notD

\* CancelledError delivered at an await of the transfer loop: the wait for
\* the response (line 203), a chunk read (line 240) or the sleep (line 270).
\* Only lines 238-265 catch it, so the part file is unlinked only when the
\* loop is reading chunks.
DlCancel ==
    /\ dpc \in {"wait", "stream", "sleep"}
    /\ dpc' = "cancelled"
    /\ IF dpc = "stream"
       THEN /\ part' = <<>>
            /\ partExists' = FALSE
       ELSE UNCHANGED <<part, partExists>>
    /\ UNCHANGED <<done, total, retries_left, dest, destExists, rangeFrom,
                   resp, attempts, rangeIgnored>>
    /\ UNCHANGED notD

DlNext ==
    \/ DlSend
    \/ DlConnectFault
    \/ DlHttpError
    \/ \E hasCR \in BOOLEAN : DlResp206(hasCR)
    \/ \E cl \in {0, FileLen} : DlResp200(cl)
    \/ DlChunk
    \/ DlStreamEnds
    \/ DlStreamFault
    \/ DlSleepDone
    \/ DlCancel

\* --------------------------------------------------- download_telegram_file
\* app/downloader.py lines 285-350, on the variables of the transfer loop it
\* has too (done, total, dest, the request and its response); its positions
\* are prefixed tg_.  It has no part file and no retries_left.

\* Lines 296-306: the state on entry; a file of an earlier download may
\* already have the destination name.
TgStart ==
    /\ dpc = "tg_getfile"
    /\ done = 0
    /\ total = 0
    /\ retries_left = 0
    /\ part = <<>>
    /\ partExists = FALSE
    /\ destExists \in BOOLEAN
    /\ dest \in IF destExists
                THEN {SubSeq(Resource, 1, n) : n \in 0..FileLen}
                ELSE {<<>>}
    /\ rangeFrom = 0
    /\ resp = NoResp
    /\ attempts = 0
    /\ rangeIgnored = FALSE

\* Line 298: bot.get_file returns the file path.
TgGetFile ==
    /\ dpc = "tg_getfile"
    /\ dpc' = "tg_request"
    /\ UNCHANGED <<done, total, retries_left, part, partExists, dest,
                   destExists, rangeFrom, resp, attempts, rangeIgnored>>
    /\ UNCHANGED notD

\* Line 298 raises.
TgGetFileFails ==
    /\ dpc = "tg_getfile"
    /\ dpc' = "tg_raised"
    /\ UNCHANGED <<done, total, retries_left, part, partExists, dest,
                   destExists, rangeFrom, resp, attempts, rangeIgnored>>
    /\ UNCHANGED notD

\* Lines 308-310: the one GET is sent.
TgSend ==
    /\ dpc = "tg_request"
    /\ attempts' = attempts + 1
    /\ dpc' = "tg_wait"
    /\ UNCHANGED <<done, total, retries_left, part, partExists, dest,
                   destExists, rangeFrom, resp, rangeIgnored>>
    /\ UNCHANGED notD

\* Line 310 raises ClientConnectorError / TimeoutError /
\* ConnectionResetError: lines 343-345 re-raise it.
TgConnectFault ==
    /\ dpc = "tg_wait"
    /\ dpc' = "tg_raised"
    /\ UNCHANGED <<done, total, retries_left, part, partExists, dest,
                   destExists, rangeFrom, resp, attempts, rangeIgnored>>
    /\ UNCHANGED notD

\* Line 311: raise_for_status raises ClientResponseError.
TgHttpError ==
    /\ dpc = "tg_wait"
    /\ resp' = [status |-> 500, pos |-> 0]
    /\ dpc' = "tg_raised"
    /\ UNCHANGED <<done, total, retries_left, part, partExists, dest,
                   destExists, rangeFrom, attempts, rangeIgnored>>
    /\ UNCHANGED notD

\* Lines 311-318: a 200 answer; total is its Content-Length cl (0 when it
\* has none) and open(dest, "wb") creates or truncates the destination.
TgResp200(cl) ==
    /\ dpc = "tg_wait"
    /\ total' = cl
    /\ dest' = <<>>
    /\ destExists' = TRUE
    /\ resp' = [status |-> 200, pos |-> 1]
    /\ dpc' = "tg_stream"
    /\ UNCHANGED <<done, retries_left, part, partExists, rangeFrom, attempts,
                   rangeIgnored>>
    /\ UNCHANGED notD

\* Lines 319-323: one chunk is read and written to the destination.
TgChunk ==
    /\ dpc = "tg_stream"
    /\ resp.pos <= FileLen
    /\ dest' = Append(dest, Resource[resp.pos])
    /\ done' = done + 1
    /\ resp' = [resp EXCEPT !.pos = @ + 1]
    /\ UNCHANGED <<dpc, total, retries_left, part, partExists, destExists,
                   rangeFrom, attempts, rangeIgnored>>
    /\ UNCHANGED notD

\* Lines 319, 347-350: the stream ends without an exception; return.
TgStreamEnds ==
    /\ dpc = "tg_stream"
    /\ dpc' = "tg_returned"
    /\ UNCHANGED <<done, total, retries_left, part, partExists, dest,
                   destExists, rangeFrom, resp, attempts, rangeIgnored>>
    /\ UNCHANGED notD

\* Line 319 raises ClientPayloadError / TimeoutError / ConnectionResetError:
\* lines 343-345 re-raise it; the destination keeps what was written.
TgStreamFault ==
    /\ dpc = "tg_stream"
    /\ dpc' = "tg_raised"
    /\ UNCHANGED <<done, total, retries_left, part, partExists, dest,
                   destExists, rangeFrom, resp, attempts, rangeIgnored>>
    /\ UNCHANGED notD

\* CancelledError at an await: lines 335-341 unlink the destination when the
\* chunk loop is running; at lines 298 and 310 nothing catches it.
TgCancel ==
    /\ dpc \in {"tg_getfile", "tg_wait", "tg_stream"}
    /\ dpc' = "tg_cancelled"
    /\ IF dpc = "tg_stream"
       THEN /\ dest' = <<>>
            /\ destExists' = FALSE
       ELSE UNCHANGED <<dest, destExists>>
    /\ UNCHANGED <<done, total, retries_left, part, partExists, rangeFrom,
                   resp, attempts, rangeIgnored>>
    /\ UNCHANGED notD

\* ------------------------------------------- landing-page resolution loop
\* app/downloader.py, download_http, lines 136-184.  URLs are numbered; what
\* a URL serves is chosen at each request.  A hint is recorded as the
\* number of the URL whose HEAD response supplied it, 0 for none.

NUrls == 3
Urls == 1..NUrls

\* Line 137.
max_html_hops == 5

\* Line 144: the passes of "for _ in range(max_html_hops + 1)".
LoopPasses == max_html_hops + 1

\* The resolution loop is not running.
RIdle ==
    /\ rpc = "idle"
    /\ iter = 0
    /\ hops = 0
    /\ cur_url = 0
    /\ seenFile = FALSE
    /\ name_hint = 0
    /\ mime_hint = 0
    /\ total_declared = 0

\* Lines 136-144: the state on entry to the first pass.
RStart ==
    /\ rpc = "head"
    /\ iter = 1
    /\ hops = 0
    /\ cur_url \in Urls
    /\ seenFile = FALSE
    /\ name_hint = 0
    /\ mime_hint = 0
    /\ total_declared = 0

\* Lines 146-156: HEAD answered 2xx.  hasCT / hasCL: the response carries a
\* Content-Type / a positive Content-Length.  pick_name_from_headers always
\* returns a name.
RsHeadOk(hasCT, hasCL) ==
    /\ rpc = "head"
    /\ mime_hint' = IF mime_hint # 0 THEN mime_hint
                    ELSE IF hasCT THEN cur_url ELSE 0
    /\ total_declared' = IF hasCL THEN cur_url ELSE total_declared
    /\ name_hint' = IF name_hint # 0 THEN name_hint ELSE cur_url
    /\ rpc' = "get"
    /\ UNCHANGED <<iter, hops, cur_url, seenFile>>
    /\ UNCHANGED notR

\* Lines 146-158: HEAD answered another status or raised; no hint is taken.
RsHeadSkipped ==
    /\ rpc = "head"
    /\ rpc' = "get"
    /\ UNCHANGED <<iter, hops, cur_url, seenFile, name_hint, mime_hint,
                   total_declared>>
    /\ UNCHANGED notR

\* Lines 161-179: the GET is not a 2xx HTML page; break.
RsGetFile ==
    /\ rpc = "get"
    /\ seenFile' = TRUE
    /\ rpc' = "transfer"
    /\ UNCHANGED <<iter, hops, cur_url, name_hint, mime_hint, total_declared>>
    /\ UNCHANGED notR

\* Line 144: what "continue" does: the next pass, or the end of the for
\* statement, which has no else clause, so line 181 runs next.
AfterContinue == IF iter < LoopPasses THEN "head" ELSE "transfer"

\* Lines 167-172: the page yields a link nxt other than cur_url; continue.
RsGetHtmlHop(nxt) ==
    /\ rpc = "get"
    /\ nxt # cur_url
    /\ cur_url' = nxt
    /\ hops' = hops + 1
    /\ rpc' = AfterContinue
    /\ iter' = IF AfterContinue = "head" THEN iter + 1 ELSE iter
    /\ UNCHANGED <<seenFile, name_hint, mime_hint, total_declared>>
    /\ UNCHANGED notR

\* Lines 167-177: the page yields no link, or a link to cur_url itself;
\* RuntimeError("This URL opens a web page, not a direct file. ...").
RsGetHtmlNoLink ==
    /\ rpc = "get"
    /\ rpc' = "failed"
    /\ UNCHANGED <<iter, hops, cur_url, seenFile, name_hint, mime_hint,
                   total_declared>>
    /\ UNCHANGED notR

\* Lines 161-166: the GET itself raises (no try around it).
RsGetRaises ==
    /\ rpc = "get"
    /\ rpc' = "error"
    /\ UNCHANGED <<iter, hops, cur_url, seenFile, name_hint, mime_hint,
                   total_declared>>
    /\ UNCHANGED notR

ResNext ==
    \/ \E hasCT \in BOOLEAN, hasCL \in BOOLEAN : RsHeadOk(hasCT, hasCL)
    \/ RsHeadSkipped
    \/ RsGetFile
    \/ \E nxt \in Urls : RsGetHtmlHop(nxt)
    \/ RsGetHtmlNoLink
    \/ RsGetRaises

\* ------------------------------------------------------ progress throttle
\* app/utils.py Throttle (lines 61-71) behind updater (app/handlers.py lines
\* 298-304).  Time is counted in ticks of 1/TicksPerSec second.

TicksPerSec == 2
\* Largest interval, in seconds, a Throttle is constructed with here;
\* app/config.py sets EDIT_THROTTLE_SECS = 1.0.
MaxInterval == 3
\* Seconds the observed transfer lasts.
DurationSecs == 10

\* No throttle exists.
HIdle ==
    /\ now = 0
    /\ t0 = 0
    /\ thr_interval = 0
    /\ thr_last = 0
    /\ emitted = 0
    /\ lastEmit = 0

\* Throttle.__init__ (lines 63-65) at handlers.py line 298: _last = 0.0.
\* The monotonic clock has an arbitrary origin.
HStart ==
    /\ now \in 0..(MaxInterval * TicksPerSec)
    /\ t0 = now
    /\ thr_interval \in {i * TicksPerSec : i \in 1..MaxInterval}
    /\ thr_last = 0
    /\ emitted = 0
    /\ lastEmit = 0

\* Throttle.ready, line 68: "(now - self._last) >= self.interval"
ThrottleReadyAlways(t) == TRUE
ThrottleReady(t) == (t - thr_last) >= thr_interval

\* handlers.py lines 300-304: a caller reports progress; when the throttle
\* is ready (and then stamps _last, line 69) a safe_edit task is created.
UpdaterCall ==
    /\ thr_interval > 0
    /\ IF ThrottleReady(now)
       THEN /\ thr_last' = now
            /\ emitted' = emitted + 1
            /\ lastEmit' = now
       ELSE UNCHANGED <<thr_last, emitted, lastEmit>>
    /\ UNCHANGED <<now, t0, thr_interval>>
    /\ UNCHANGED notH

\* Time passes while the transfer runs.
Tick ==
    /\ thr_interval > 0
    /\ now - t0 < DurationSecs * TicksPerSec
    /\ now' = now + 1
    /\ UNCHANGED <<t0, thr_interval, thr_last, emitted, lastEmit>>
    /\ UNCHANGED notH

ThrNext ==
    \/ UpdaterCall
    \/ Tick


\* ------------------------------------------------------------ upload part
\* app/handlers.py lines 334-371 and app/drive.py upload_with_progress
\* (lines 148-198), taken from line 334, next to an event loop that receives
\* enqueue requests.  upload_with_progress is a plain function: from line
\* 334 to line 354 the coroutine has no await.

UpChunks == 3
MaxRequests == 3

\* No upload.
UIdle ==
    /\ upc = "idle"
    /\ uploaded = 0
    /\ reqPending = 0
    /\ reqAcked = 0

\* The coroutine is at line 334.
UStart ==
    /\ upc = "entry"
    /\ uploaded = 0
    /\ reqPending = 0
    /\ reqAcked = 0

\* The event loop runs callbacks one at a time: until the coroutine reaches
\* an await no other callback runs.
LoopFree == upc \notin {"entry", "uploading"}

\* An update carrying a link or a file reaches the process.
UpRequestArrives ==
    /\ upc # "idle"
    /\ reqPending + reqAcked < MaxRequests
    /\ reqPending' = reqPending + 1
    /\ UNCHANGED <<upc, uploaded, reqAcked>>
    /\ UNCHANGED notU

\* The event loop runs the handler of a received update: _enqueue_job
\* computes the position and sends the ticket.
UpHandleRequest ==
    /\ upc # "idle"
    /\ LoopFree
    /\ reqPending > 0
    /\ reqPending' = reqPending - 1
    /\ reqAcked' = reqAcked + 1
    /\ UNCHANGED <<upc, uploaded>>
    /\ UNCHANGED notU

\* Lines 334-348: the coroutine gets the Drive service and calls
\* upload_with_progress (drive.py lines 153-173).
UpBegin ==
    /\ upc = "entry"
    /\ upc' = "uploading"
    /\ UNCHANGED <<uploaded, reqPending, reqAcked>>
    /\ UNCHANGED notU

\* Lines 337-340: no Drive service; await status_msg.edit_text(...).
UpNoService ==
    /\ upc = "entry"
    /\ upc' = "await339"
    /\ UNCHANGED <<uploaded, reqPending, reqAcked>>
    /\ UNCHANGED notU

\* drive.py lines 174-188: one blocking req.next_chunk() and the call of
\* status_updater.
UpChunk ==
    /\ upc = "uploading"
    /\ uploaded < UpChunks
    /\ uploaded' = uploaded + 1
    /\ UNCHANGED <<upc, reqPending, reqAcked>>
    /\ UNCHANGED notU

\* drive.py lines 190-198, handlers.py lines 350-365: the upload returns and
\* the coroutine suspends in the await of status_msg.edit_text.
UpReturn ==
    /\ upc = "uploading"
    /\ uploaded = UpChunks
    /\ upc' = "await354"
    /\ UNCHANGED <<uploaded, reqPending, reqAcked>>
    /\ UNCHANGED notU

\* drive.py line 175 raises: lines 366-371, await status_msg.edit_text.
UpRaises ==
    /\ upc = "uploading"
    /\ upc' = "await368"
    /\ UNCHANGED <<uploaded, reqPending, reqAcked>>
    /\ UNCHANGED notU

\* The await of line 339, 354 or 368 ends; the function returns.
UpFinalEdit ==
    /\ upc \in {"await339", "await354", "await368"}
    /\ upc' = "done"
    /\ UNCHANGED <<uploaded, reqPending, reqAcked>>
    /\ UNCHANGED notU

UpNext ==
    \/ UpRequestArrives
    \/ UpHandleRequest
    \/ UpBegin
    \/ UpNoService
    \/ UpChunk
    \/ UpReturn
    \/ UpRaises
    \/ UpFinalEdit


\* ---------------------------------------------------------------- safe_edit
\* app/handlers.py lines 59-97, one call.  Sleeps are counted in half
\* seconds.

\* Line 65: max_tries: int = 4
max_tries == 4
\* Largest retry_after, in seconds, of a RetryAfter error.
MaxRetryAfter == 2

\* No call of safe_edit.
EIdle ==
    /\ spc = "idle"
    /\ attempt = 0
    /\ edits = 0
    /\ sends = 0
    /\ last_err = ""
    /\ slept = 0

\* Lines 68-71: last_err = None, the first pass of the loop awaits
\* msg.edit_text.
EStart ==
    /\ spc = "edit"
    /\ attempt = 0
    /\ edits = 0
    /\ sends = 0
    /\ last_err = ""
    /\ slept = 0

\* Lines 71-75: msg.edit_text returns; safe_edit returns its result.
SeEditOk ==
    /\ spc = "edit"
    /\ edits' = edits + 1
    /\ spc' = "edited"
    /\ UNCHANGED <<attempt, sends, last_err, slept>>
    /\ UNCHANGED notE

\* Lines 76-77: RetryAfter; sleep retry_after + 0.5 seconds.
SeRetryAfter(ra) ==
    /\ spc = "edit"
    /\ edits' = edits + 1
    /\ slept' = slept + 2 * ra + 1
    /\ spc' = "sleep"
    /\ UNCHANGED <<attempt, sends, last_err>>
    /\ UNCHANGED notE

\* Lines 78-79: TimedOut or NetworkError; sleep 1.5 * (attempt + 1) seconds.
SeTimedOut ==
    /\ spc = "edit"
    /\ edits' = edits + 1
    /\ slept' = slept + 3 * (attempt + 1)
    /\ spc' = "sleep"
    /\ UNCHANGED <<attempt, sends, last_err>>
    /\ UNCHANGED notE

\* Lines 80-83: BadRequest "message is not modified"; return msg.
SeNotModified ==
    /\ spc = "edit"
    /\ edits' = edits + 1
    /\ spc' = "unmodified"
    /\ UNCHANGED <<attempt, sends, last_err, slept>>
    /\ UNCHANGED notE

\* Lines 80-89: another BadRequest, or any other Exception; last_err = e,
\* sleep 0.5 second.
SeOtherError(e) ==
    /\ spc = "edit"
    /\ edits' = edits + 1
    /\ last_err' = e
    /\ slept' = slept + 1
    /\ spc' = "sleep"
    /\ UNCHANGED <<attempt, sends>>
    /\ UNCHANGED notE

\* Line 70: what follows the sleep: the next pass of
\* "for attempt in range(max_tries)", or the fallback of line 91.
LoopAgainAlways == TRUE
LoopAgain == attempt + 1 < max_tries

\* Lines 70-92: the sleep is over.
SeSleepDone ==
    /\ spc = "sleep"
    /\ IF LoopAgain
       THEN /\ attempt' = attempt + 1
            /\ spc' = "edit"
       ELSE /\ spc' = "send"
            /\ UNCHANGED attempt
    /\ UNCHANGED <<edits, sends, last_err, slept>>
    /\ UNCHANGED notE

\* Lines 91-94: msg.chat.send_message returns; safe_edit returns its result.
SeSendOk ==
    /\ spc = "send"
    /\ sends' = sends + 1
    /\ spc' = "sent"
    /\ UNCHANGED <<attempt, edits, last_err, slept>>
    /\ UNCHANGED notE

\* Lines 95-98: send_message raises; last_err is raised when set, else the
\* function ends and returns None.
SeSendFails ==
    /\ spc = "send"
    /\ sends' = sends + 1
    /\ spc' = IF last_err # "" THEN "raised" ELSE "none"
    /\ UNCHANGED <<attempt, edits, last_err, slept>>
    /\ UNCHANGED notE

\* safe_edit has ended.
SeEnded == spc \in {"edited", "unmodified", "sent", "raised", "none"}

SeNext ==
    \/ SeEditOk
    \/ \E ra \in 1..MaxRetryAfter : SeRetryAfter(ra)
    \/ SeTimedOut
    \/ SeNotModified
    \/ \E e \in {"BadRequest", "Exception"} : SeOtherError(e)
    \/ SeSleepDone
    \/ SeSendOk
    \/ SeSendFails


\* ------------------------------------------- progress edits of a download
\* handlers.py lines 300-304: updater, called from the chunk loop of the
\* download, creates a task safe_edit(status_msg, txt) and does not keep it;
\* status_msg is the ticket of the job.

\* No progress task exists.
PIdle == progress = [j \in JobIds |-> FALSE]

\* downloader.py lines 246-256, handlers.py lines 300-304: the download of
\* the job a worker holds reports progress and the throttle is ready.
ProgressSpawn(w) ==
    /\ workers[w].pc = "download"
    /\ progress' = [progress EXCEPT ![workers[w].job] = TRUE]
    /\ UNCHANGED qvars
    /\ UNCHANGED notQP

\* safe_edit lines 70-97: the task ends: an edit_text of it was applied, at
\* its first attempt or after sleeps, or none was (message not modified,
\* the fallback send_message, or last_err raised).
ProgressTaskEnds(j) ==
    /\ progress[j]
    /\ \E applied \in BOOLEAN :
        ticket' = [ticket EXCEPT ![j] = IF applied THEN ProgressCard ELSE @]
    /\ progress' = [progress EXCEPT ![j] = FALSE]
    /\ UNCHANGED <<job_queue, worker_task, worker_busy, workers, handler,
                   nextJob, position, outcome, cancels>>
    /\ UNCHANGED notQP

\* ---------------------------------------------------------- specifications
Init == QInit /\ DIdle /\ RIdle /\ HIdle /\ UIdle /\ EIdle /\ PIdle

Next ==
    \/ EnqueueBegin
    \/ EnqueuePut
    \/ EnqueueReplyFails
    \/ \E w \in WorkerIds : WorkerGet(w)
    \/ \E w \in WorkerIds : WorkerStarted(w)
    \/ \E w \in WorkerIds : WorkerNoLoginReplied(w)
    \/ \E w \in WorkerIds : WorkerNoLoginReplyFails(w)
    \/ \E w \in WorkerIds : DownloadReturns(w)
    \/ \E w \in WorkerIds : DownloadRaises(w)
    \/ \E w \in WorkerIds : WorkerFailEdit(w)
    \/ \E w \in WorkerIds : CancelWorker(w)

Spec == Init /\ [][Next]_vars

\* The queue without cancellation of the worker: every await of the worker
\* completes, so each of its steps is eventually taken.
NextLive ==
    \/ EnqueueBegin
    \/ EnqueuePut
    \/ EnqueueReplyFails
    \/ \E w \in WorkerIds : WorkerGet(w)
    \/ \E w \in WorkerIds : WorkerStarted(w)
    \/ \E w \in WorkerIds : WorkerNoLoginReplied(w)
    \/ \E w \in WorkerIds : WorkerNoLoginReplyFails(w)
    \/ \E w \in WorkerIds : DownloadReturns(w)
    \/ \E w \in WorkerIds : DownloadRaises(w)
    \/ \E w \in WorkerIds : WorkerFailEdit(w)

LiveSpec == Init /\ [][NextLive]_vars /\ WF_vars(WorkerStep)

\* The queue without cancellation, with the progress edits of the downloads.
PgNext ==
    \/ EnqueueBegin
    \/ EnqueuePut
    \/ EnqueueReplyFails
    \/ \E w \in WorkerIds : WorkerGet(w)
    \/ \E w \in WorkerIds : WorkerStarted(w)
    \/ \E w \in WorkerIds : WorkerNoLoginReplied(w)
    \/ \E w \in WorkerIds : WorkerNoLoginReplyFails(w)
    \/ \E w \in WorkerIds : DownloadReturns(w)
    \/ \E w \in WorkerIds : DownloadRaises(w)
    \/ \E w \in WorkerIds : WorkerFailEdit(w)
    \/ \E w \in WorkerIds : ProgressSpawn(w)
    \/ \E j \in JobIds : ProgressTaskEnds(j)

PgSpec == Init /\ [][PgNext]_vars

DlInit == QInit /\ DStart /\ RIdle /\ HIdle /\ UIdle /\ EIdle /\ PIdle

DlSpec == DlInit /\ [][DlNext]_vars

\* The coroutine is resumed whenever what it awaits (the response, the next
\* chunk of a finite stream, the back-off sleep) is ready.
DlLiveSpec == DlInit /\ [][DlNext]_vars /\ WF_vars(DlNext)

StaleInit ==
    QInit /\ DStartStale /\ RIdle /\ HIdle /\ UIdle /\ EIdle /\ PIdle

StaleSpec == StaleInit /\ [][DlNext]_vars

ResInit == QInit /\ DIdle /\ RStart /\ HIdle /\ UIdle /\ EIdle /\ PIdle

ResSpec == ResInit /\ [][ResNext]_vars

ThrInit == QInit /\ DIdle /\ RIdle /\ HStart /\ UIdle /\ EIdle /\ PIdle

ThrSpec == ThrInit /\ [][ThrNext]_vars

\* handlers.py lines 308-313: a job downloads with download_telegram_file
\* or with download_http, as its source says.
SrcInit == QInit /\ (TgStart \/ DStart) /\ RIdle /\ HIdle /\ UIdle /\ EIdle /\ PIdle

SrcNext ==
    \/ TgGetFile
    \/ TgGetFileFails
    \/ TgSend
    \/ TgConnectFault
    \/ TgHttpError
    \/ \E cl \in {0, FileLen} : TgResp200(cl)
    \/ TgChunk
    \/ TgStreamEnds
    \/ TgStreamFault
    \/ TgCancel
    \/ DlSend
    \/ DlConnectFault
    \/ DlHttpError
    \/ \E hasCR \in BOOLEAN : DlResp206(hasCR)
    \/ \E cl \in {0, FileLen} : DlResp200(cl)
    \/ DlChunk
    \/ DlStreamEnds
    \/ DlStreamFault
    \/ DlSleepDone
    \/ DlCancel

SrcSpec == SrcInit /\ [][SrcNext]_vars

UpInit == QInit /\ DIdle /\ RIdle /\ HIdle /\ UStart /\ EIdle /\ PIdle

UpSpec == UpInit /\ [][UpNext]_vars

SeInit == QInit /\ DIdle /\ RIdle /\ HIdle /\ UIdle /\ EStart /\ PIdle

\* Every await of safe_edit ends: the edit, the sleep and the send each
\* return or raise.
SeLiveSpec == SeInit /\ [][SeNext]_vars /\ WF_vars(SeNext)

\* ------------------------------------------------------------- job states
\* Queued: the job is in _job_queue.
InQueue(j) == \E i \in 1..Len(job_queue) : job_queue[i] = j
\* Processing: a worker took the job and has not reached task_done for it.
Held(j) == \E w \in WorkerIds : workers[w].job = j /\ workers[w].pc # "done"
\* The worker is done with the job.
Finished(j) == outcome[j] # "none"
\* The job was put into the queue.
Submitted(j) == InQueue(j) \/ Held(j) \/ Finished(j)

LiveWorkers == {w \in WorkerIds : workers[w].pc # "done"}
BusyWorkers == {w \in WorkerIds : workers[w].job # 0}

\* ------------------------------------------------------------------ claims

\* C1: a job whose processing raised, and which the worker has left, shows a
\* failure status on its ticket (and the worker went on looping).
C1_FaultShowsFailure ==
    \A j \in JobIds :
        outcome[j] = "failed" =>
            /\ ticket[j][1] = "Failed"
            /\ (cancels = 0 => LiveWorkers # {})

\* C2: at most one job is in the Processing state at any moment.
C2_OneProcessing ==
    /\ Cardinality({j \in JobIds : Held(j)}) <= 1
    /\ Cardinality(BusyWorkers) <= 1

C2_Witness ==
    \E j, k \in JobIds : Held(j) /\ InQueue(k) /\ handler.pc = "reply"

\* C3: jobs are processed in submission order: whenever a job has begun
\* processing, every job submitted before it has already been left by the
\* worker.
C3_Fifo ==
    \A j, k \in JobIds :
        (j < k /\ Submitted(j) /\ (Held(k) \/ Finished(k))) => Finished(j)

C3_Witness == Finished(1) /\ Held(2) /\ InQueue(3)

\* C4: the position _enqueue_job computes for a job is N + 1, N being the
\* number of jobs queued or processing at that moment (1 when the worker is
\* idle and the queue is empty).
C4_Position ==
    [][\A j \in JobIds :
        position'[j] # position[j] =>
            position'[j] =
                Cardinality({k \in JobIds : InQueue(k) \/ Held(k)}) + 1]_vars

C4_Witness ==
    /\ position[1] = 1
    /\ position[2] = 2
    /\ position[3] = 3
    /\ Held(1)
    /\ InQueue(2)

\* C5: every queued job eventually begins processing, with no further
\* enqueue or other outside action, once the worker's awaits complete.
C5_EventuallyProcessed ==
    \A j \in JobIds : InQueue(j) ~> Held(j)

C5_Witness ==
    /\ position[2] = 2
    /\ outcome[1] \in {"failed", "returned"}
    /\ Held(2)
    /\ nextJob = 3

\* C6: a job the worker is done with (not by cancellation) ended Completed
\* or Failed and its ticket shows that terminal status.
C6_TerminalTicket ==
    \A j \in JobIds :
        outcome[j] \in {"returned", "failed", "completed"} =>
            /\ outcome[j] \in {"failed", "completed"}
            /\ ticket[j][1] \in {"Failed", "Complete"}

\* C7: a job with valid credentials whose download succeeds ends Completed,
\* not Failed.
C7_SuccessCompletes ==
    [][\A w \in WorkerIds :
        LET j == workers[w].job IN
        (/\ workers[w].creds = "yes"
         /\ workers[w].dl = "ok"
         /\ outcome[j] = "none"
         /\ outcome'[j] \notin {"none", "cancelled"}) =>
            outcome'[j] = "completed"]_vars

\* C8: every put leaves a live worker, the one _worker_task names: the first
\* enqueue starts it, and an enqueue after the worker task has ended starts
\* a new one, which takes the jobs still queued.
C8_Restart ==
    [][Len(job_queue') = Len(job_queue) + 1 =>
        /\ worker_task' # 0
        /\ workers'[worker_task'].pc # "done"
        /\ LiveWorkers' = {worker_task'}]_vars

C8_Witness ==
    /\ Len(workers) = 2
    /\ workers[1].pc = "done"
    /\ workers[2].job = 1
    /\ outcome[1] = "none"

\* C9: at most one worker task is alive at any time.
C9_OneWorker == Cardinality(LiveWorkers) <= 1

C9_Witness ==
    /\ Len(workers) = 2
    /\ workers[1].pc = "done"
    /\ workers[2].pc # "done"
    /\ Submitted(3)
    /\ handler.pc = "idle"

\* C10: the partial artifact is renamed only after done >= total was seen
\* (known total) or after a clean end of stream with the total unknown.
C10_RenameOnlyComplete ==
    dpc = "returned" => (total = 0 \/ done >= total)

\* C11: each chunk written (done grows) resets the retry budget to
\* max_retries, so only faults with no data between them are counted.
C11_ChunkResetsBudget ==
    [][done' > done => retries_left' = max_retries]_vars

\* C12: a transient fault is surfaced only by the attempt that follows
\* max_retries faults (the 6th request); up to the 5th request a fault is
\* followed by another attempt, which can complete the download.
C12_BudgetOfFive ==
    /\ attempts <= max_retries + 1
    /\ (dpc = "raised" /\ resp.status # 500) =>
           (attempts = max_retries + 1 /\ retries_left = 0)
    /\ dpc = "sleep" => attempts <= max_retries

C12_Witness ==
    /\ dpc = "returned"
    /\ attempts = 5
    /\ retries_left = max_retries - 4
    /\ dest = Resource

\* C13: an HTTP error status ends the transfer at once: the step that
\* receives it raises, leaves retries_left alone and issues no request, and
\* nothing happens after a raise.
C13_HttpErrorNotRetried ==
    [][/\ dpc # "raised"
       /\ resp'.status = 500 =>
              /\ dpc' = "raised"
              /\ retries_left' = retries_left
              /\ attempts' = attempts]_vars

C13_Witness ==
    /\ dpc = "raised"
    /\ resp.status = 500
    /\ attempts = 2
    /\ retries_left = max_retries - 1
    /\ partExists
    /\ done > 0

\* C14: when every request that carried a Range header was answered 206, a
\* download that was resumed ends with the bytes of the resource.
C14_ResumeIdentical ==
    (dpc = "returned" /\ resp.status = 206 /\ ~rangeIgnored) =>
        dest = Resource

\* C15: a 200 answer to a request with a nonzero offset discards the partial
\* bytes and resets done to 0, and when that full body has been received the
\* final artifact is the resource once, with no duplicated prefix.
C15_IgnoredRangeRestarts ==
    [][/\ (dpc = "wait" /\ rangeFrom > 0 /\ resp'.status = 200) =>
              (done' = 0 /\ part' = <<>>)
       /\ (dpc' = "returned" /\ resp.status = 200 /\ rangeFrom > 0
               /\ resp.pos > FileLen) =>
              dest' = Resource]_vars

C15_Witness ==
    /\ dpc = "returned"
    /\ resp.status = 200
    /\ rangeFrom > 0
    /\ resp.pos = FileLen + 1
    /\ dest = Resource

\* C16: done decreases only in the step that receives a 200 answer to a
\* request with a nonzero offset, where it becomes 0 and the partial
\* artifact is emptied.
C16_DoneMonotone ==
    [][done' < done =>
           /\ dpc = "wait"
           /\ rangeFrom > 0
           /\ resp'.status = 200
           /\ done' = 0
           /\ part' = <<>>]_vars

C16_Witness ==
    /\ dpc = "stream"
    /\ resp.status = 200
    /\ rangeFrom = 2
    /\ done = 1
    /\ attempts = 2
    /\ retries_left = max_retries - 1

\* C17: a download cancelled while waiting for the response, while reading
\* chunks or during the sleep before a retry leaves no partial artifact.
C17_CancelDeletesPart == dpc = "cancelled" => ~partExists

\* C18: the number of hops taken (reassignments of cur_url) never exceeds
\* max_html_hops.
C18_HopLimit == hops <= max_html_hops

\* C19: download_http goes on to the transfer only after a GET found a
\* resource that is not an HTML page; a chain of pages that outlasts the
\* loop ends in a failure.
C19_ExhaustedFails == rpc = "transfer" => seenFile

C21_GuidanceShown ==
    [][\A w \in WorkerIds :
        LET j == workers[w].job IN
        (/\ workers[w].pc = "failedit"
         /\ workers[w].dl = "NotAFile"
         /\ ticket'[j] # ticket[j]) =>
            ticket'[j] = FailedCard("NotAFile")]_vars

C24_SameDiscipline ==
    /\ (dpc \in {"raised", "tg_raised"} /\ attempts > 0
            /\ resp.status # 500) =>
           attempts = max_retries + 1
    /\ (dpc \notin {"returned", "tg_returned"} /\ done > 0) => dest = <<>>

\* C25: safe_edit makes at most max_tries edit attempts, each failed one
\* followed by a sleep; it sends a new message only when all max_tries edits
\* have failed, and then exactly once; and it always ends.
C25_BoundedRetries ==
    /\ [](/\ edits <= max_tries
          /\ sends <= 1
          /\ sends = 1 => edits = max_tries
          /\ spc \in {"sent", "raised", "none"} => sends = 1
          /\ spc = "send" => (edits = max_tries /\ sends = 0)
          /\ spc = "sleep" => slept > 0)
    /\ [][edits' = edits + 1 /\ edits > 0 => spc = "edit" /\ slept > 0]_vars
    /\ <>SeEnded

C25_Witness ==
    /\ spc = "sent"
    /\ edits = max_tries
    /\ sends = 1
    /\ last_err = ""

\* C26: the total changes on a response only by the total of a
\* Content-Range header, or by a Content-Length seen while no total was
\* known on a request that started at offset 0.
C26_ContentLengthAtZero ==
    [][(dpc = "wait" /\ dpc' = "stream" /\ total' # total) =>
           \/ (resp'.status = 206 /\ total' = FileLen)
           \/ (total = 0 /\ rangeFrom = 0)]_vars

C26_Witness ==
    /\ dpc = "stream"
    /\ resp.status = 206
    /\ rangeFrom > 0
    /\ total = 0

\* C27: once the ticket of a job shows its terminal status, it keeps
\* showing it: no progress edit of the job is applied afterwards.
C27_TerminalStays ==
    [][\A j \in JobIds :
        (ticket[j][1] = "Failed" /\ Finished(j)) =>
            ticket'[j] = ticket[j]]_vars

\* C28: every byte of the final artifact is a byte the job's own URL
\* served.
C28_OwnBytesOnly ==
    dpc = "returned" =>
        \A i \in 1..Len(dest) : \E k \in 1..FileLen : dest[i] = Resource[k]

\* C29: while the transfer loop runs, done is the size of the part file (0
\* when there is none), and the offset of a request in flight is that size.
C29_OffsetIsFileSize ==
    /\ dpc \in {"request", "wait", "stream", "sleep"} =>
           /\ done = Len(part)
           /\ ~partExists => part = <<>>
    /\ dpc = "wait" => rangeFrom = Len(part)

C29_Witness ==
    /\ dpc = "wait"
    /\ rangeFrom > 0
    /\ rangeIgnored
    /\ attempts >= 3
    /\ retries_left <= max_retries - 2

\* C30: after one or more hops, the name hint and the MIME hint that the
\* resolution hands on are those of the resource it ended at (or none).
C30_HintsOfFinal ==
    (rpc = "transfer" /\ seenFile /\ hops > 0) =>
        /\ name_hint \in {0, cur_url}
        /\ mime_hint \in {0, cur_url}

\* C31: _worker_busy is true exactly while a worker holds a job: false
\* while the worker waits on the queue and after it has ended, however the
\* job was left (return, exception, cancellation of the worker).
C31_BusyFlag == worker_busy <=> (BusyWorkers # {})

C31_Witness ==
    /\ cancels = 1
    /\ \E j \in JobIds : outcome[j] = "cancelled"
    /\ \E j \in JobIds : outcome[j] = "failed"
    /\ \E j \in JobIds : outcome[j] = "returned"
    /\ ~worker_busy
    /\ LiveWorkers # {}

\* C32: the transfer loop of download_http terminates when every response
\* stream is finite: retries_left stays within 0..max_retries and never
\* increases, at most max_retries + 1 requests are sent, and the loop ends
\* by returning or by raising (a surfaced error, or the CancelledError of a
\* cancelled download).
C32_Terminates ==
    /\ [](retries_left \in 0..max_retries /\ attempts <= max_retries + 1)
    /\ [][retries_left' <= retries_left]_vars
    /\ <>(dpc \in {"returned", "raised", "cancelled"})

C32_Witness ==
    /\ dpc = "raised"
    /\ attempts = max_retries + 1
    /\ retries_left = 0
    /\ resp = NoResp

====
